---- MODULE Spec2Model ----
(***************************************************************************)
(* A model of server_tcp.c: a TCP key-value server that accepts one        *)
(* connection at a time, reads one request, executes SET / GET / DEL       *)
(* against files of its working directory, replies and closes.             *)
(*                                                                         *)
(* Byte strings are kept run-length encoded (a sequence of runs            *)
(* [c |-> byte, n |-> count], adjacent runs of different bytes), so that   *)
(* the buffers keep the sizes the source gives them (1024, 256, 768, 16)   *)
(* and a 255-byte key or a 767-byte value is one run.                      *)
(***************************************************************************)
EXTENDS Integers, Sequences, FiniteSets, TLC

\* ------------------------------------------------------------------------
\* Program constants (server_tcp.c, lines 11-21)

MAX_BACKLOG == 10
BUFFER_SIZE == 1024
SOCKET_ERROR == -1
BIND_ERROR == -2
LISTEN_ERROR == -3
IP_SERVER_ERROR == -4
ACCEPT_ERROR == -5
MAX_KEY_LEN == 256
MAX_VALUE_LEN == 768
MAX_COMMAND_LEN == 16

\* ------------------------------------------------------------------------
\* Byte strings, run-length encoded

Min(a, b) == IF a < b THEN a ELSE b

\* The NUL byte that ends a C string.
NUL == "\\0"

\* isspace() in the C locale, as sscanf's %s and its white-space directive use it.
Whitespace == {" ", "\t", "\n", "\r"}

\* n copies of byte c.
Rep(c, n) == IF n > 0 THEN << [c |-> c, n |-> n] >> ELSE << >>

\* Concatenation; the runs that meet are merged when they hold the same byte.
Cat(a, b) ==
  IF a = << >> THEN b
  ELSE IF b = << >> THEN a
  ELSE IF a[Len(a)].c = b[1].c
       THEN SubSeq(a, 1, Len(a) - 1)
              \o << [c |-> b[1].c, n |-> a[Len(a)].n + b[1].n] >>
              \o Tail(b)
       ELSE a \o b

RECURSIVE Str(_)
\* The byte string of a sequence of bytes, e.g. Str(<<"O", "K", "\n">>).
Str(q) == IF q = << >> THEN << >> ELSE Cat(Rep(q[1], 1), Str(Tail(q)))

RECURSIVE StrLen(_)
\* The number of bytes of s.
StrLen(s) == IF s = << >> THEN 0 ELSE s[1].n + StrLen(Tail(s))

RECURSIVE Take(_, _)
\* The first k bytes of s (all of s when it is shorter).
Take(s, k) ==
  IF k <= 0 \/ s = << >> THEN << >>
  ELSE IF s[1].n >= k THEN Rep(s[1].c, k)
  ELSE << s[1] >> \o Take(Tail(s), k - s[1].n)

RECURSIVE Drop(_, _)
\* s without its first k bytes.
Drop(s, k) ==
  IF k <= 0 \/ s = << >> THEN s
  ELSE IF s[1].n > k THEN << [c |-> s[1].c, n |-> s[1].n - k] >> \o Tail(s)
  ELSE Drop(Tail(s), k - s[1].n)

RECURSIVE SpanIn(_, _)
\* The length of the longest prefix of s made of bytes of the set cs (strspn).
SpanIn(s, cs) ==
  IF s = << >> \/ s[1].c \notin cs THEN 0 ELSE s[1].n + SpanIn(Tail(s), cs)

RECURSIVE SpanNotIn(_, _)
\* The length of the longest prefix of s with no byte of the set cs (strcspn).
SpanNotIn(s, cs) ==
  IF s = << >> \/ s[1].c \in cs THEN 0 ELSE s[1].n + SpanNotIn(Tail(s), cs)

\* The bytes of s that a C string function sees: those before the first NUL.
CStr(s) == Take(s, SpanNotIn(s, {NUL}))

\* ------------------------------------------------------------------------
\* The request line: sscanf and the command table

\* sscanf(buffer, "%15s %255s %767[^\n]", command, key, value) (line 185).
\* buffer is read as a C string.  %s skips white space and takes the bytes up
\* to the next white space, at most its width; the white-space directives skip
\* any white space, newlines included; %[^\n] takes the bytes up to the next
\* newline, at most its width, and fails on none.  The result is the number of
\* fields assigned, or EOF (-1) when the input ends before the first one.  A
\* field that is not assigned keeps the zeros it was initialised with.
sscanf(buffer) ==
  LET s0 == CStr(buffer)
      s1 == Drop(s0, SpanIn(s0, Whitespace))
      command == Take(s1, Min(15, SpanNotIn(s1, Whitespace)))
      s2 == Drop(s1, StrLen(command))
      s3 == Drop(s2, SpanIn(s2, Whitespace))
      key == Take(s3, Min(255, SpanNotIn(s3, Whitespace)))
      s4 == Drop(s3, StrLen(key))
      s5 == Drop(s4, SpanIn(s4, Whitespace))
      value == Take(s5, Min(767, SpanNotIn(s5, {"\n"})))
  IN  IF command = << >>
        THEN [parsed_args |-> -1, command |-> << >>, key |-> << >>, value |-> << >>]
      ELSE IF key = << >>
        THEN [parsed_args |-> 1, command |-> command, key |-> << >>, value |-> << >>]
      ELSE IF value = << >>
        THEN [parsed_args |-> 2, command |-> command, key |-> key, value |-> << >>]
      ELSE [parsed_args |-> 3, command |-> command, key |-> key, value |-> value]

\* The state of command, key, value and parsed_args before sscanf has run.
NoParse == [parsed_args |-> 0, command |-> << >>, key |-> << >>, value |-> << >>]

SET == Str(<< "S", "E", "T" >>)
GET == Str(<< "G", "E", "T" >>)
DEL == Str(<< "D", "E", "L" >>)

\* get_command_type with strcasecmp: the lower-case names are commands too.
get_command_type_AnyCase(command) ==
  IF command \in {SET, Str(<< "s", "e", "t" >>)} THEN "CMD_SET"
  ELSE IF command \in {GET, Str(<< "g", "e", "t" >>)} THEN "CMD_GET"
  ELSE IF command \in {DEL, Str(<< "d", "e", "l" >>)} THEN "CMD_DEL"
  ELSE "CMD_UNKNOWN"

\* get_command_type (lines 94-104): strcmp against the three names.
get_command_type(command) ==
  IF command = SET THEN "CMD_SET"
  ELSE IF command = GET THEN "CMD_GET"
  ELSE IF command = DEL THEN "CMD_DEL"
  ELSE "CMD_UNKNOWN"

\* ------------------------------------------------------------------------
\* The replies

\* write(fd, text, n): the first n bytes of text are written.
write(text, n) == Take(text, n)

OK_REPLY == write(Str(<< "O", "K", "\n" >>), 3)
ERROR_REPLY == write(Str(<< "E", "R", "R", "O", "R", "\n" >>), 6)
NOTFOUND_REPLY == write(Str(<< "N", "O", "T", "F", "O", "U", "N", "D", "\n" >>), 9)

\* The text of line 189, "ERROR: Incorrect number of arguments\n".
MalformedText ==
  Str(<< "E", "R", "R", "O", "R", ":", " ",
         "I", "n", "c", "o", "r", "r", "e", "c", "t", " ",
         "n", "u", "m", "b", "e", "r", " ", "o", "f", " ",
         "a", "r", "g", "u", "m", "e", "n", "t", "s", "\n" >>)

\* write(client_socket, "ERROR: Incorrect number of arguments\n", 36) (line 189).
MALFORMED_REPLY == write(MalformedText, 36)

\* snprintf(response, sizeof(response), "OK\n%s\n", file_content) and
\* write(client_socket, response, strlen(response)) (lines 144-146).
GetReply(file_content) ==
  LET response == Take(Cat(Cat(Str(<< "O", "K", "\n" >>), CStr(file_content)),
                           Str(<< "\n" >>)),
                       BUFFER_SIZE - 1)
  IN  write(response, StrLen(response))

\* ------------------------------------------------------------------------
\* The store: the files of the working directory

\* A path names a regular file with its content, or a directory.
File(content) == [kind |-> "file", content |-> content]
Dir == [kind |-> "dir", content |-> << >>]

\* The working directory's own name, which every directory holds.
Dot == Str(<< "." >>)

\* The store at start-up: no record; "." names the directory itself.
EmptyStore == (Dot :> Dir)

\* The system calls that may fail for a reason outside the program
\* (permissions, a full disk, no descriptors left, an I/O error).
Faults == {"none", "open", "write", "read", "remove"}

\* ExecSet with open lacking O_TRUNC: a failed write leaves the old content,
\* a write overwrites from the start and keeps what lay beyond.
ExecSet_NoTrunc(files, key, value, fault) ==
  IF (key \in DOMAIN files /\ files[key].kind = "dir") \/ fault = "open"
    THEN [files |-> files, reply |-> ERROR_REPLY]
  ELSE IF fault = "write"
    THEN [files |-> IF key \in DOMAIN files THEN files
                    ELSE (key :> File(<< >>)) @@ files,
          reply |-> ERROR_REPLY]
  ELSE [files |-> (key :> File(
                     IF key \in DOMAIN files
                          /\ StrLen(files[key].content) > StrLen(CStr(value))
                       THEN Cat(CStr(value),
                                Drop(files[key].content, StrLen(CStr(value))))
                       ELSE CStr(value))) @@ files,
        reply |-> OK_REPLY]

\* case CMD_SET (lines 116-131).  open(key, O_WRONLY | O_CREAT | O_TRUNC)
\* fails on a directory; once it succeeds the file exists and is empty,
\* whatever the write does afterwards.
ExecSet(files, key, value, fault) ==
  IF (key \in DOMAIN files /\ files[key].kind = "dir") \/ fault = "open"
    THEN [files |-> files, reply |-> ERROR_REPLY]
  ELSE IF fault = "write"
    THEN [files |-> (key :> File(<< >>)) @@ files, reply |-> ERROR_REPLY]
  ELSE [files |-> (key :> File(CStr(value))) @@ files, reply |-> OK_REPLY]

\* ExecGet with O_CREAT among the flags of open: a missing record is created.
ExecGet_Creates(files, key, fault) ==
  IF key \notin DOMAIN files
    THEN [files |-> (key :> File(<< >>)) @@ files, reply |-> GetReply(<< >>)]
  ELSE IF files[key].kind = "dir" \/ fault \in {"open", "read"}
    THEN [files |-> files, reply |-> ERROR_REPLY]
  ELSE [files |-> files,
        reply |-> GetReply(Take(files[key].content, MAX_VALUE_LEN - 1))]

\* case CMD_GET (lines 132-151).  open(key, O_RDONLY) succeeds on a directory,
\* read() of a directory fails; read takes sizeof(file_content) - 1 bytes.
ExecGet(files, key, fault) ==
  IF key \notin DOMAIN files \/ fault = "open"
    THEN [files |-> files, reply |-> NOTFOUND_REPLY]
  ELSE IF files[key].kind = "dir" \/ fault = "read"
    THEN [files |-> files, reply |-> ERROR_REPLY]
  ELSE [files |-> files,
        reply |-> GetReply(Take(files[key].content, MAX_VALUE_LEN - 1))]

\* Whether remove(key) returns 0: the path exists, is not "." and nothing
\* outside the program forbids it.
RemoveSucceeds(files, key, fault) ==
  key \in DOMAIN files /\ files[key].kind = "file" /\ fault # "remove"

\* ExecDel that empties the working directory instead of removing one path.
ExecDel_RemovesAll(files, key, fault) ==
  IF RemoveSucceeds(files, key, fault)
    THEN [files |-> EmptyStore, reply |-> OK_REPLY]
  ELSE [files |-> files, reply |-> OK_REPLY]

\* ExecDel without the call of remove: the reply alone.
ExecDel_KeepsFile(files, key, fault) == [files |-> files, reply |-> OK_REPLY]

\* case CMD_DEL (lines 152-159): both branches write "OK\n".
ExecDel(files, key, fault) ==
  IF RemoveSucceeds(files, key, fault)
    THEN [files |-> [p \in DOMAIN files \ {key} |-> files[p]], reply |-> OK_REPLY]
  ELSE [files |-> files, reply |-> OK_REPLY]

\* parse_message (lines 114-165): the store after the command and the reply.
parse_message(files, command, key, value, fault) ==
  LET type == get_command_type(command)
  IN  IF type = "CMD_SET" THEN ExecSet(files, key, value, fault)
      ELSE IF type = "CMD_GET" THEN ExecGet(files, key, fault)
      ELSE IF type = "CMD_DEL" THEN ExecDel(files, key, fault)
      ELSE [files |-> files, reply |-> ERROR_REPLY]

\* The faults that can occur while a command of this type runs.
FaultsOf(type) ==
  IF type = "CMD_SET" THEN {"none", "open", "write"}
  ELSE IF type = "CMD_GET" THEN {"none", "open", "read"}
  ELSE IF type = "CMD_DEL" THEN {"none", "remove"}
  ELSE {"none"}

\* ------------------------------------------------------------------------
\* The clients' requests

\* How many connections the clients open in a run.
MaxConns == 3

Space == Str(<< " " >>)
Newline == Str(<< "\n" >>)

\* Command words that are no command: an unknown one, a lower-case one, and
\* one a byte longer than the command field takes.
LongWord == Rep("A", MAX_COMMAND_LEN)
UnknownWords == {Str(<< "F", "O", "O" >>), Str(<< "s", "e", "t" >>), LongWord}

\* Keys: a short one, one of the greatest length the key field takes, and
\* one a byte longer.
ShortKey == Str(<< "k" >>)
LongKey == Rep("k", MAX_KEY_LEN - 1)
OverlongKey == Rep("k", MAX_KEY_LEN)

\* Values: none, a short one, one with white space inside, one that begins
\* with white space, one of the greatest length the value field takes.
ShortValue == Str(<< "v" >>)
RequestValues ==
  {<< >>, ShortValue, Str(<< "a", " ", "b" >>), Str(<< " ", "v" >>),
   Rep("v", MAX_VALUE_LEN - 1)}
OverlongValue == Rep("v", MAX_VALUE_LEN)

\* A request is COMMAND, then KEY and VALUE each after one space when
\* present, then the end of the line or nothing (a partial line).  The
\* requests the clients send: SET of every value, GET and DEL, on the two
\* keys; the three commands on the working directory; partial lines; unknown
\* commands; lines of one word or none; a SET with a key, and one with a
\* value, a byte longer than its field takes.
Requests ==
  [command : {SET}, key : {ShortKey, LongKey}, value : RequestValues,
   eol : {Newline}]
  \cup [command : {GET, DEL}, key : {ShortKey, LongKey}, value : {<< >>},
        eol : {Newline}]
  \cup [command : {SET, GET, DEL}, key : {Dot}, value : {<< >>}, eol : {Newline}]
  \cup [command : {SET, GET, DEL} \cup UnknownWords, key : {ShortKey},
        value : {ShortValue}, eol : {<< >>}]
  \cup [command : UnknownWords, key : {ShortKey}, value : {<< >>},
        eol : {Newline}]
  \cup [command : {SET, GET, << >>} \cup UnknownWords, key : {<< >>},
        value : {<< >>}, eol : {Newline}]
  \cup [command : {SET}, key : {<< >>}, value : {<< >>}, eol : {<< >>}]
  \cup [command : {SET}, key : {OverlongKey}, value : {ShortValue},
        eol : {Newline}]
  \cup [command : {SET}, key : {ShortKey}, value : {OverlongValue},
        eol : {Newline}]

\* The bytes of a request on the wire.
Wire(r) ==
  Cat(Cat(Cat(r.command,
              IF r.key = << >> THEN << >> ELSE Cat(Space, r.key)),
          IF r.value = << >> THEN << >> ELSE Cat(Space, r.value)),
      r.eol)

NoRequest == [command |-> << >>, key |-> << >>, value |-> << >>, eol |-> << >>]

\* A key of the protocol: 1 to 255 bytes, no white space, no NUL.
ValidKey(K) ==
  /\ StrLen(K) \in 1..255
  /\ SpanNotIn(K, Whitespace \cup {NUL}) = StrLen(K)

\* A value of the protocol: at most 767 bytes, no newline, no NUL, and not
\* beginning with white space (the value is what follows the white space
\* after the key).
ValidValue(V) ==
  /\ StrLen(V) <= 767
  /\ SpanNotIn(V, {"\n", NUL}) = StrLen(V)
  /\ SpanIn(V, Whitespace) = 0

\* A request of the protocol as the client sends it: one line, SET, GET or
\* DEL with a valid key, and a valid value for SET alone.
AbstractRequest(r) ==
  /\ r.command \in {SET, GET, DEL}
  /\ ValidKey(r.key)
  /\ ValidValue(r.value)
  /\ r.command \in {GET, DEL} => r.value = << >>
  /\ r.eol = Newline

\* The map from keys to values after the request r.
Apply(map, r) ==
  IF r.command = SET THEN (r.key :> r.value) @@ map
  ELSE IF r.command = DEL THEN [k \in DOMAIN map \ {r.key} |-> map[k]]
  ELSE map

\* A file operation of the command fails for a reason other than the path
\* being absent: a fault, or the path is a directory.
IoFailure(files, key, fault) ==
  \/ fault # "none"
  \/ key \in DOMAIN files /\ files[key].kind = "dir"

\* ------------------------------------------------------------------------
\* State

VARIABLES
  pc,             \* where the process is: start, accept, read, parse,
                  \*   dispatch, malformed, reply, close, exited
  status,         \* the exit status once the process has ended
  listening,      \* the server socket is bound and listening
  files,          \* the working directory: path -> file or directory
  nconn,          \* connections the clients have opened so far
  backlog,        \* connections waiting to be accepted, oldest first
  open,           \* accepted connections the server has not closed
  client_socket,  \* main's client_socket: a connection, ACCEPT_ERROR, or 0
  rx,             \* bytes the client has sent that the server has not read
  peer,           \* the client's end: open, closed, error
  buffer,         \* handle_client's buffer
  parsed,         \* parsed_args, command, key, value of handle_client
  out,            \* the reply parse_message has chosen
  tx,             \* bytes the server has written to the connection
  sent,           \* history: the request the client of this connection sent
  fault,          \* history: the system call that failed in this request
  phases,         \* history: the steps the handler has taken on this connection
  last,           \* history: key -> the last SET or DEL executed on that key
  lastEffect,     \* history: the last connection whose request was executed
  abstract        \* history: ok - every request executed so far was a request
                  \*   of the protocol and no file operation failed; map - the
                  \*   keys and values those requests leave (empty once not ok)

vars == << pc, status, listening, files, nconn, backlog, open, client_socket,
           rx, peer, buffer, parsed, out, tx, sent, fault, phases, last,
           lastEffect, abstract >>

conn_vars == << rx, peer, buffer, parsed, out, tx, sent, fault, phases >>
hist_vars == << last, lastEffect, abstract >>

Init ==
  /\ pc = "start"
  /\ status = "running"
  /\ listening = FALSE
  /\ files = EmptyStore
  /\ nconn = 0
  /\ backlog = << >>
  /\ open = {}
  /\ client_socket = 0
  /\ rx = << >>
  /\ peer = "none"
  /\ buffer = << >>
  /\ parsed = NoParse
  /\ out = << >>
  /\ tx = << >>
  /\ sent = NoRequest
  /\ fault = "none"
  /\ phases = << >>
  /\ last = << >>
  /\ lastEffect = 0
  /\ abstract = [ok |-> TRUE, map |-> << >>]

\* ------------------------------------------------------------------------
\* main and the listener

\* set_tcp_server_socket with main not testing the result: the accept loop
\* is entered whatever it returned.
set_tcp_server_socket_Ignores ==
  /\ pc = "start"
  /\ \E server_socket \in {0, SOCKET_ERROR, IP_SERVER_ERROR, BIND_ERROR, LISTEN_ERROR} :
       listening' = (server_socket >= 0)
  /\ pc' = "accept"
  /\ UNCHANGED << status, files, nconn, backlog, open, client_socket >>
  /\ UNCHANGED conn_vars
  /\ UNCHANGED hist_vars

\* set_tcp_server_socket (lines 41-65) and main's test of its result
\* (lines 200-201): a descriptor (0 stands for it), or one of four negative
\* codes and EXIT_FAILURE.
set_tcp_server_socket ==
  /\ pc = "start"
  /\ \E server_socket \in {0, SOCKET_ERROR, IP_SERVER_ERROR, BIND_ERROR, LISTEN_ERROR} :
       IF server_socket >= 0
         THEN /\ listening' = TRUE
              /\ pc' = "accept"
              /\ UNCHANGED status
         ELSE /\ pc' = "exited"
              /\ status' = "EXIT_FAILURE"
              /\ UNCHANGED listening
  /\ UNCHANGED << files, nconn, backlog, open, client_socket >>
  /\ UNCHANGED conn_vars
  /\ UNCHANGED hist_vars

\* A client connects: the connection waits in the listen queue.
ClientConnect ==
  /\ listening
  /\ pc # "exited"
  /\ nconn < MaxConns
  /\ Len(backlog) < MAX_BACKLOG
  /\ nconn' = nconn + 1
  /\ backlog' = Append(backlog, nconn + 1)
  /\ UNCHANGED << pc, status, listening, files, open, client_socket >>
  /\ UNCHANGED conn_vars
  /\ UNCHANGED hist_vars

\* accept_client_socket succeeds (lines 77, 82-85) and main calls
\* handle_client (line 207), which blocks in read.
AcceptOk ==
  /\ pc = "accept"
  /\ backlog # << >>
  /\ client_socket' = Head(backlog)
  /\ backlog' = Tail(backlog)
  /\ open' = open \cup {Head(backlog)}
  /\ peer' = "open"
  /\ pc' = "read"
  /\ UNCHANGED << status, listening, files, nconn >>
  /\ UNCHANGED << rx, buffer, parsed, out, tx, sent, fault, phases >>
  /\ UNCHANGED hist_vars

\* AcceptFail with main returning EXIT_FAILURE on a negative client_socket.
AcceptFail_Exits ==
  /\ pc = "accept"
  /\ client_socket' = ACCEPT_ERROR
  /\ pc' = "exited"
  /\ status' = "EXIT_FAILURE"
  /\ UNCHANGED << listening, files, nconn, backlog, open >>
  /\ UNCHANGED conn_vars
  /\ UNCHANGED hist_vars

\* accept fails (lines 78-81): main logs and loops (lines 204-205).
AcceptFail ==
  /\ pc = "accept"
  /\ client_socket' = ACCEPT_ERROR
  /\ pc' = "accept"
  /\ UNCHANGED << status, listening, files, nconn, backlog, open >>
  /\ UNCHANGED conn_vars
  /\ UNCHANGED hist_vars

\* ------------------------------------------------------------------------
\* The client of the accepted connection

\* The client sends a request.
ClientSend ==
  /\ pc = "read"
  /\ peer = "open"
  /\ rx = << >>
  /\ \E r \in Requests :
       /\ Wire(r) # << >>
       /\ rx' = Wire(r)
       /\ sent' = r
  /\ UNCHANGED << pc, status, listening, files, nconn, backlog, open,
                  client_socket, peer, buffer, parsed, out, tx, fault, phases >>
  /\ UNCHANGED hist_vars

\* The client closes without sending, or the transport fails.
ClientClose ==
  /\ pc = "read"
  /\ peer = "open"
  /\ rx = << >>
  /\ \E p \in {"closed", "error"} : peer' = p
  /\ UNCHANGED << pc, status, listening, files, nconn, backlog, open,
                  client_socket, rx, buffer, parsed, out, tx, sent, fault, phases >>
  /\ UNCHANGED hist_vars

\* ------------------------------------------------------------------------
\* handle_client (lines 172-192)

\* What read(client_socket, buffer, sizeof(buffer) - 1) returns once it
\* returns: the bytes waiting, at most 1023; 0 at end of stream; -1 on error.
bytes_received ==
  IF rx # << >> THEN Min(BUFFER_SIZE - 1, StrLen(rx))
  ELSE IF peer = "closed" THEN 0
  ELSE -1

\* The connection's variables once handle_client has returned.
ConnReset ==
  /\ rx' = << >>
  /\ peer' = "none"
  /\ buffer' = << >>
  /\ parsed' = NoParse
  /\ out' = << >>
  /\ tx' = << >>
  /\ sent' = NoRequest
  /\ fault' = "none"
  /\ phases' = << >>

\* Read that closes and returns on no data, instead of exiting.
Read_Returns ==
  /\ pc = "read"
  /\ rx # << >> \/ peer \in {"closed", "error"}
  /\ phases' = Append(phases, "read")
  /\ IF bytes_received <= 0
       THEN /\ pc' = "close"
            /\ UNCHANGED << buffer, rx >>
       ELSE /\ buffer' = Take(rx, bytes_received)
            /\ rx' = Drop(rx, bytes_received)
            /\ pc' = "parse"
  /\ UNCHANGED << status, listening, files, nconn, backlog, open,
                  client_socket, peer, parsed, out, tx, sent, fault >>
  /\ UNCHANGED hist_vars

\* Read on a socket that does not block: with nothing to read it returns -1
\* at once.
Read_NonBlocking ==
  /\ pc = "read"
  /\ phases' = Append(phases, "read")
  /\ IF bytes_received <= 0
       THEN /\ open' = open \ {client_socket}
            /\ pc' = "exited"
            /\ status' = "EXIT_FAILURE"
            /\ UNCHANGED << buffer, rx >>
       ELSE /\ buffer' = Take(rx, bytes_received)
            /\ rx' = Drop(rx, bytes_received)
            /\ pc' = "parse"
            /\ UNCHANGED << open, status >>
  /\ UNCHANGED << listening, files, nconn, backlog, client_socket,
                  peer, parsed, out, tx, sent, fault >>
  /\ UNCHANGED hist_vars

\* Lines 174-181: read; on no data close and exit, else end the buffer.
Read ==
  /\ pc = "read"
  /\ rx # << >> \/ peer \in {"closed", "error"}
  /\ phases' = Append(phases, "read")
  /\ IF bytes_received <= 0
       THEN /\ open' = open \ {client_socket}
            /\ pc' = "exited"
            /\ status' = "EXIT_FAILURE"
            /\ UNCHANGED << buffer, rx >>
       ELSE /\ buffer' = Take(rx, bytes_received)
            /\ rx' = Drop(rx, bytes_received)
            /\ pc' = "parse"
            /\ UNCHANGED << open, status >>
  /\ UNCHANGED << listening, files, nconn, backlog, client_socket,
                  peer, parsed, out, tx, sent, fault >>
  /\ UNCHANGED hist_vars

\* Lines 182-186: sscanf and the test of parsed_args.
Parse ==
  /\ pc = "parse"
  /\ parsed' = sscanf(buffer)
  /\ phases' = Append(phases, "parse")
  /\ pc' = IF parsed'.parsed_args >= 2 THEN "dispatch" ELSE "malformed"
  /\ UNCHANGED << status, listening, files, nconn, backlog, open,
                  client_socket, rx, peer, buffer, out, tx, sent, fault >>
  /\ UNCHANGED hist_vars

\* The entry of last for a command executed on a key: the command, the key
\* and value of the request as the client sent them, the reply, whether the
\* path existed before, and whether remove() succeeded.
LastOf(type, req, reply, existed, removed) ==
  [type |-> type, key |-> req.key, value |-> req.value, reply |-> reply,
   existed |-> existed, removed |-> removed]

\* Line 187 and the file operations of parse_message: the command is
\* executed with (parsed_args == 3) ? value : "".
Dispatch ==
  /\ pc = "dispatch"
  /\ LET type == get_command_type(parsed.command)
         value == IF parsed.parsed_args = 3 THEN parsed.value ELSE << >>
     IN  \E f \in FaultsOf(type) :
           LET r == parse_message(files, parsed.command, parsed.key, value, f)
           IN  /\ files' = r.files
               /\ out' = r.reply
               /\ fault' = f
               /\ last' = IF type \in {"CMD_SET", "CMD_DEL"}
                            THEN (parsed.key :>
                                    LastOf(type, sent, r.reply,
                                           parsed.key \in DOMAIN files,
                                           type = "CMD_DEL"
                                             /\ RemoveSucceeds(files, parsed.key, f)))
                                 @@ last
                            ELSE last
               /\ abstract' =
                    LET ok == /\ abstract.ok
                              /\ AbstractRequest(sent)
                              /\ ~IoFailure(files, parsed.key, f)
                    IN  [ok |-> ok,
                         map |-> IF ok THEN Apply(abstract.map, sent) ELSE << >>]
  /\ lastEffect' = client_socket
  /\ phases' = Append(phases, "dispatch")
  /\ pc' = "reply"
  /\ UNCHANGED << status, listening, nconn, backlog, open, client_socket,
                  rx, peer, buffer, parsed, tx, sent >>

\* Reply that reads the next request of the same connection afterwards.
Reply_ReadsAgain ==
  /\ pc = "reply"
  /\ tx' = Cat(tx, out)
  /\ phases' = Append(phases, "reply")
  /\ pc' = "read"
  /\ UNCHANGED << status, listening, files, nconn, backlog, open,
                  client_socket, rx, peer, buffer, parsed, out, sent, fault >>
  /\ UNCHANGED hist_vars

\* The write of parse_message to the client (lines 120-162).
Reply ==
  /\ pc = "reply"
  /\ tx' = Cat(tx, out)
  /\ phases' = Append(phases, "reply")
  /\ pc' = "close"
  /\ UNCHANGED << status, listening, files, nconn, backlog, open,
                  client_socket, rx, peer, buffer, parsed, out, sent, fault >>
  /\ UNCHANGED hist_vars

\* Malformed that ends the process after its reply, as the failed read does.
Malformed_Exits ==
  /\ pc = "malformed"
  /\ tx' = Cat(tx, MALFORMED_REPLY)
  /\ phases' = Append(phases, "reply")
  /\ open' = open \ {client_socket}
  /\ pc' = "exited"
  /\ status' = "EXIT_FAILURE"
  /\ UNCHANGED << listening, files, nconn, backlog, client_socket, rx, peer,
                  buffer, parsed, out, sent, fault >>
  /\ UNCHANGED hist_vars

\* Line 189: the reply to a request of fewer than two fields.
Malformed ==
  /\ pc = "malformed"
  /\ tx' = Cat(tx, MALFORMED_REPLY)
  /\ phases' = Append(phases, "reply")
  /\ pc' = "close"
  /\ UNCHANGED << status, listening, files, nconn, backlog, open,
                  client_socket, rx, peer, buffer, parsed, out, sent, fault >>
  /\ UNCHANGED hist_vars

\* Close without the call of close: the descriptor stays open.
Close_LeavesOpen ==
  /\ pc = "close"
  /\ client_socket' = 0
  /\ ConnReset
  /\ pc' = "accept"
  /\ UNCHANGED << status, listening, files, nconn, backlog, open >>
  /\ UNCHANGED hist_vars

\* Line 191: close(client_socket); handle_client returns to main's loop.
Close ==
  /\ pc = "close"
  /\ open' = open \ {client_socket}
  /\ client_socket' = 0
  /\ ConnReset
  /\ pc' = "accept"
  /\ UNCHANGED << status, listening, files, nconn, backlog >>
  /\ UNCHANGED hist_vars

handle_client == Read \/ Parse \/ Dispatch \/ Reply \/ Malformed \/ Close

accept_client_socket == AcceptOk \/ AcceptFail

Client == ClientConnect \/ ClientSend \/ ClientClose

Next == set_tcp_server_socket \/ accept_client_socket \/ handle_client \/ Client

Spec == Init /\ [][Next]_vars

\* ------------------------------------------------------------------------
\* Types

TypeOK ==
  /\ pc \in {"start", "accept", "read", "parse", "dispatch", "malformed",
             "reply", "close", "exited"}
  /\ status \in {"running", "EXIT_FAILURE"}
  /\ nconn \in 0..MaxConns
  /\ open \subseteq 1..nconn

\* ------------------------------------------------------------------------
\* Notions the properties are stated with

\* The client of this connection sent `GET K` for a valid key K.
SentGet == sent.command = GET /\ ValidKey(sent.key) /\ sent.value = << >>

\* The reply to a GET that finds content V.
Content(V) == Cat(Cat(Str(<< "O", "K", "\n" >>), V), Newline)

\* The last command executed on the key of this connection's request was
\* `SET K V`, sent with that very key and a valid value, and answered OK.
LastWasSetOk ==
  /\ sent.key \in DOMAIN last
  /\ last[sent.key].type = "CMD_SET"
  /\ last[sent.key].key = sent.key
  /\ ValidValue(last[sent.key].value)
  /\ last[sent.key].reply = Str(<< "O", "K", "\n" >>)

\* The last command executed on the key of this connection's request was a DEL.
LastWasDel ==
  /\ sent.key \in DOMAIN last
  /\ last[sent.key].type = "CMD_DEL"

\* The last byte of a non-empty s.
LastByte(s) == s[Len(s)].c

RECURSIVE Count(_, _)
\* How many bytes of s are the byte c.
Count(s, c) ==
  IF s = << >> THEN 0
  ELSE (IF s[1].c = c THEN s[1].n ELSE 0) + Count(Tail(s), c)

RECURSIVE Tokens(_)
\* The number of white-space-separated tokens of s.
Tokens(s) ==
  IF s = << >> THEN 0
  ELSE IF SpanIn(s, Whitespace) > 0 THEN Tokens(Drop(s, SpanIn(s, Whitespace)))
  ELSE 1 + Tokens(Drop(s, SpanNotIn(s, Whitespace)))

\* The 36 bytes "ERROR: Incorrect number of arguments".
MalformedMessage ==
  Str(<< "E", "R", "R", "O", "R", ":", " ",
         "I", "n", "c", "o", "r", "r", "e", "c", "t", " ",
         "n", "u", "m", "b", "e", "r", " ", "o", "f", " ",
         "a", "r", "g", "u", "m", "e", "n", "t", "s" >>)

\* ------------------------------------------------------------------------
\* C1

\* C1 (round trip): when `SET K V` (K a valid key, V a valid value) was
\* answered "OK\n" and no other SET or DEL was executed on K since, the reply
\* to `GET K`, read without a fault, is exactly "OK\n" V "\n" with V the bytes
\* the client sent.  It fails: a request of more than 1023 bytes is cut.
C1_RoundTrip ==
  (pc = "close" /\ SentGet /\ fault = "none" /\ LastWasSetOk)
    => tx = Content(last[sent.key].value)

\* The request `SET K V` with its newline fits in the bytes one read takes.
SetFitsBuffer(K, V) == StrLen(SET) + 1 + StrLen(K) + 1 + StrLen(V) + 1 <= BUFFER_SIZE - 1

\* What does hold of C1: the round trip of every request that fits in the
\* 1023 bytes of one read.
C1_RoundTripWithinBuffer ==
  (pc = "close" /\ SentGet /\ fault = "none" /\ LastWasSetOk
     /\ SetFitsBuffer(sent.key, last[sent.key].value))
    => tx = Content(last[sent.key].value)

\* ------------------------------------------------------------------------
\* C2

\* C2 as claimed: after a DEL K, whether or not it removed anything, the
\* next GET K (no SET K between) is answered "NOTFOUND\n".
C2_GetAfterAnyDel ==
  (pc = "close" /\ SentGet /\ fault = "none" /\ LastWasDel)
    => tx = NOTFOUND_REPLY

\* C2 as amended: every DEL is answered exactly "OK\n", whether or not the
\* path exists and whether or not remove() succeeds; and when the DEL removed
\* the record or there was none, the next GET K (no SET K between) is
\* answered exactly "NOTFOUND\n".
C2_DelThenGet ==
  /\ (pc = "close" /\ get_command_type(parsed.command) = "CMD_DEL"
        /\ parsed.parsed_args >= 2)
       => tx = Str(<< "O", "K", "\n" >>)
  /\ (pc = "close" /\ SentGet /\ LastWasDel
        /\ (last[sent.key].removed \/ ~last[sent.key].existed))
       => tx = Str(<< "N", "O", "T", "F", "O", "U", "N", "D", "\n" >>)

\* A GET has been answered after a DEL that removed the record of its key.
C2_Witness ==
  /\ pc = "close"
  /\ SentGet
  /\ LastWasDel
  /\ last[sent.key].removed
  /\ tx = NOTFOUND_REPLY

\* ------------------------------------------------------------------------
\* C3

\* The replies that are a bare status line.
StatusReplies ==
  {Str(<< "O", "K", "\n" >>), Str(<< "E", "R", "R", "O", "R", "\n" >>),
   Str(<< "N", "O", "T", "F", "O", "U", "N", "D", "\n" >>)}

\* C3: every reply written to a connection ends in "\n", and a reply that is
\* not a GET's content (a status line, the malformed-request message) holds
\* no other "\n".  It fails: the malformed-request message is written without
\* its last byte.
C3_ReplyEndsInNewline ==
  pc = "close" =>
    /\ tx # << >>
    /\ LastByte(tx) = "\n"
    /\ (tx \in StatusReplies \/ parsed.parsed_args < 2) => Count(tx, "\n") = 1

\* ------------------------------------------------------------------------
\* C4

\* No SET has been executed on the key of this connection's request since
\* the store was empty or since the last DEL of it.
NoSetSince == sent.key \notin DOMAIN last \/ LastWasDel

\* No SET has been executed on the key of this connection's request since
\* the store was empty or since a DEL after which no file of that name was
\* left, and the key is not the working directory's own name.
NoFileSince ==
  /\ sent.key \notin DOMAIN EmptyStore
  /\ \/ sent.key \notin DOMAIN last
     \/ LastWasDel /\ (last[sent.key].removed \/ ~last[sent.key].existed)

C5_Overwrite ==
  (pc = "close" /\ SentGet /\ fault = "none" /\ LastWasSetOk
     /\ last[sent.key].existed)
    => tx = Content(last[sent.key].value)

\* What does hold of C5: the overwrite by every request that fits in the
\* 1023 bytes of one read.
C5_OverwriteWithinBuffer ==
  (pc = "close" /\ SentGet /\ fault = "none" /\ LastWasSetOk
     /\ last[sent.key].existed
     /\ SetFitsBuffer(sent.key, last[sent.key].value))
    => tx = Content(last[sent.key].value)

\* ------------------------------------------------------------------------
\* C6

\* C6: a read that returns 0 or -1 closes the connection and ends the
\* process with a failure status; nothing is written to the connection, the
\* store is unchanged, and once the process has ended nothing happens any
\* more: no connection is accepted and no file changes.
C6_ReadFailureExits ==
  [][ /\ (pc = "read" /\ pc' # "read" /\ rx = << >>)
        => /\ pc' = "exited"
           /\ status' = "EXIT_FAILURE"
           /\ open' = {}
           /\ tx' = << >>
           /\ files' = files
      /\ pc = "exited"
        => /\ pc' = "exited"
           /\ open' = open
           /\ backlog' = backlog
           /\ files' = files
           /\ tx' = tx ]_vars

\* The process has ended in handle_client's read.
C6_Witness ==
  /\ pc = "exited"
  /\ phases = << "read" >>
  /\ peer \in {"closed", "error"}
  /\ open = {}

\* ------------------------------------------------------------------------
\* C7

\* The replies that report a per-request error.
ErrorReplies ==
  {MalformedMessage, Str(<< "E", "R", "R", "O", "R", "\n" >>),
   Str(<< "N", "O", "T", "F", "O", "U", "N", "D", "\n" >>)}

\* C7: once the read has returned data the process does not end while the
\* request is handled, and after the malformed-request message, "ERROR\n" or
\* "NOTFOUND\n" the connection is closed and the server is back in accept,
\* where a waiting connection can be accepted.
C7_ErrorsNonFatal ==
  /\ [][ /\ pc \in {"parse", "dispatch", "malformed", "reply", "close"}
           => pc' # "exited" /\ status' = "running"
         /\ (pc = "close" /\ pc' # "close" /\ tx \in ErrorReplies)
           => pc' = "accept" /\ open' = {} ]_vars
  /\ []((pc = "accept" /\ backlog # << >>) => ENABLED AcceptOk)

\* A connection is being served after a SET was answered "ERROR\n" and after
\* a request was answered with an error on the connection before it.
C7_Witness ==
  /\ pc = "read"
  /\ client_socket = 3
  /\ lastEffect = 1
  /\ \E K \in DOMAIN last : last[K].reply = ERROR_REPLY

\* ------------------------------------------------------------------------
\* C8

\* C8: at most one accepted connection is open; a connection is accepted
\* only when none is open; the store changes, and a request is executed,
\* only for the one open connection, and the connections whose requests are
\* executed follow each other in the order they were accepted.
C8_OneAtATime ==
  /\ [](Cardinality(open) <= 1)
  /\ [][ /\ (open' # open /\ open' # {}) => open = {}
         /\ (files' # files \/ lastEffect' # lastEffect)
              => /\ open = {client_socket}
                 /\ lastEffect' = client_socket
                 /\ lastEffect' > lastEffect ]_vars

\* A connection is open while two more wait to be accepted.
C8_Witness ==
  /\ Cardinality(open) = 1
  /\ Len(backlog) = 2
  /\ pc = "dispatch"

\* ------------------------------------------------------------------------
\* C9

\* The steps of a handler, in order, up to any point.
LinearPhases ==
  {<< >>, << "read" >>, << "read", "parse" >>,
   << "read", "parse", "dispatch" >>,
   << "read", "parse", "dispatch", "reply" >>,
   << "read", "parse", "reply" >>}

\* C9: on a connection the handler reads once, parses, dispatches at most
\* one command, writes one reply and closes, in that order and never going
\* back; when the handler is left, by return or by exit, the connection is
\* closed, and if the read returned data exactly one reply has been written.
C9_Linear ==
  /\ [](phases \in LinearPhases)
  /\ [][ /\ (pc = "close" /\ pc' # "close")
           => /\ pc' = "accept"
              /\ client_socket \notin open'
              /\ phases \in {<< "read", "parse", "dispatch", "reply" >>,
                             << "read", "parse", "reply" >>}
              /\ tx # << >>
         /\ (pc \in {"read", "parse", "dispatch", "malformed", "reply"}
               /\ pc' \in {"accept", "exited"})
           => /\ pc = "read"
              /\ client_socket \notin open'
         /\ (pc \in {"read", "parse", "dispatch", "malformed", "reply", "close"})
           => client_socket \in open ]_vars

\* A handler has read, parsed, dispatched and replied, and is about to close.
C9_Witness ==
  /\ pc = "close"
  /\ phases = << "read", "parse", "dispatch", "reply" >>
  /\ open = {client_socket}

\* ------------------------------------------------------------------------
\* C10

\* C10: a request of fewer than two white-space-separated tokens is answered
\* with the malformed-request message and no command is dispatched.  It
\* fails: one token of more than 15 bytes is read as a command and a key.
C10_Malformed ==
  (pc = "close" /\ Tokens(buffer) < 2)
    => /\ tx = MalformedMessage
       /\ phases = << "read", "parse", "reply" >>

\* What does hold of C10: a request of no token, or of one token of at most
\* 15 bytes, is answered with the malformed-request message, no command is
\* dispatched, and the store is unchanged.
C10_MalformedShortToken ==
  /\ []((pc = "close" /\ Tokens(buffer) < 2
           /\ SpanNotIn(Drop(buffer, SpanIn(buffer, Whitespace)), Whitespace) <= 15)
          => /\ tx = MalformedMessage
             /\ phases = << "read", "parse", "reply" >>)
  /\ [][ (pc \in {"parse", "malformed", "close"} /\ Tokens(buffer) < 2)
           => files' = files /\ last' = last ]_vars

\* ------------------------------------------------------------------------
\* C11

\* The client of this connection sent a command word and a key, and the
\* command word is none of SET, GET, DEL, byte for byte.
SentUnknown ==
  /\ sent.command \notin {<< >>, SET, GET, DEL}
  /\ sent.key # << >>

\* C11: a request with a command word and a key whose command word is not
\* exactly SET, GET or DEL (lower case and over-long words included) is
\* answered with exactly "ERROR\n", and no step of its handling changes the
\* store, whatever key and value come with it.
C11_UnknownCommand ==
  /\ []((pc = "close" /\ SentUnknown)
          => tx = Str(<< "E", "R", "R", "O", "R", "\n" >>))
  /\ [][ (SentUnknown /\ pc \in {"read", "parse", "dispatch", "reply", "close"})
           => files' = files ]_vars

\* The lower-case word `set`, with a key and a value, has been answered.
C11_Witness ==
  /\ pc = "close"
  /\ sent.command = Str(<< "s", "e", "t" >>)
  /\ sent.key = ShortKey
  /\ sent.value = ShortValue
  /\ phases = << "read", "parse", "dispatch", "reply" >>

\* ------------------------------------------------------------------------
\* C12

\* A SET or GET has been executed on this connection and its reply chosen.
Executed(type) ==
  /\ pc \in {"reply", "close"}
  /\ parsed.parsed_args >= 2
  /\ get_command_type(parsed.command) = type

\* C12: a SET or GET in which a file operation fails for a reason other than
\* the record being absent is answered "ERROR\n", and "NOTFOUND\n" is the
\* reply only when no file of the key exists.  It fails: a GET whose open
\* fails on a record that exists is answered "NOTFOUND\n".
C12_IoFailureIsError ==
  /\ (Executed("CMD_SET") /\ fault # "none") => out = ERROR_REPLY
  /\ (Executed("CMD_GET") /\ fault # "none" /\ parsed.key \in DOMAIN files)
       => out = ERROR_REPLY
  /\ (Executed("CMD_GET") /\ out = NOTFOUND_REPLY)
       => parsed.key \notin DOMAIN files

\* What does hold of C12: a failed create or write in SET and a failed read
\* in GET are answered "ERROR\n"; a failed open in GET is answered
\* "NOTFOUND\n" whether or not the record exists.
C12_RepliesOnFailure ==
  /\ (Executed("CMD_SET") /\ fault # "none") => out = ERROR_REPLY
  /\ (Executed("CMD_GET") /\ fault = "read" /\ parsed.key \in DOMAIN files)
       => out = ERROR_REPLY
  /\ (Executed("CMD_GET") /\ (fault = "open" \/ parsed.key \notin DOMAIN files))
       => out = NOTFOUND_REPLY

\* ------------------------------------------------------------------------
\* C13

\* The client of the accepted connection has sent nothing and has not closed.
SilentClient == pc = "read" /\ peer = "open" /\ rx = << >> /\ sent = NoRequest

\* The client of the accepted connection has sent a line without its end and
\* has not closed.
PartialLineClient ==
  /\ peer = "open"
  /\ sent # NoRequest
  /\ sent.eol = << >>

\* C13 as stated: while the client that was accepted has sent nothing, or a
\* partial line only, and has not closed, the handler is in its read and has
\* written no reply.  It fails for the partial line, which one read takes
\* and the handler executes.
C13_SilentOrPartialBlocks ==
  (SilentClient \/ PartialLineClient) => (pc = "read" /\ tx = << >>)

\* C13, amended: while the accepted client has sent nothing and has not
\* closed, no step of the server is possible (the read does not return, no
\* connection is accepted), and every step taken meanwhile leaves the handler
\* in its read, the reply empty, the store and the accepted connections as
\* they were; bytes that have arrived, a partial line included, are read.
C13_SilentBlocks ==
  /\ [](SilentClient
          => /\ ~ENABLED handle_client
             /\ ~ENABLED accept_client_socket
             /\ tx = << >>
             /\ phases = << >>)
  /\ [][ (SilentClient /\ SilentClient')
           => /\ pc' = "read"
              /\ tx' = << >>
              /\ files' = files
              /\ open' = open
              /\ client_socket' = client_socket
              /\ lastEffect' = lastEffect ]_vars
  /\ []((pc = "read" /\ rx # << >>) => ENABLED Read)

\* A silent client holds the server while another connection waits and the
\* store holds a record.
C13_Witness ==
  /\ SilentClient
  /\ backlog # << >>
  /\ ShortKey \in DOMAIN files
  /\ lastEffect >= 1

\* ------------------------------------------------------------------------
\* C14

\* C14: a step of the server in which accept fails leaves the process running in its
\* accept loop, calls no handler, writes no reply, and leaves the store, the
\* accepted and the waiting connections as they were; after a failed accept,
\* however many in a row, a waiting connection can be accepted.
C14_AcceptFailureNonFatal ==
  /\ [][ (pc = "accept" /\ client_socket' = ACCEPT_ERROR /\ nconn' = nconn)
           => /\ pc' = "accept"
              /\ status' = "running"
              /\ files' = files
              /\ tx' = tx
              /\ phases' = phases
              /\ open' = open
              /\ backlog' = backlog
              /\ lastEffect' = lastEffect ]_vars
  /\ [](client_socket = ACCEPT_ERROR
          => /\ pc = "accept"
             /\ status = "running"
             /\ ENABLED AcceptFail
             /\ (backlog # << >> => ENABLED AcceptOk))

\* An accept has failed after a request was served, and a connection waits.
C14_Witness ==
  /\ pc = "accept"
  /\ client_socket = ACCEPT_ERROR
  /\ backlog # << >>
  /\ lastEffect >= 1
  /\ status = "running"

\* ------------------------------------------------------------------------
\* C15

\* C15: the start either leaves the socket listening and enters the accept
\* loop, or, when socket, inet_pton, bind or listen fails, ends the process
\* with EXIT_FAILURE; a process whose socket is not listening never is in
\* the accept loop, has accepted no connection, handled no request and not
\* touched the store; a process that has ended stays ended.
C15_StartupFailureExits ==
  /\ [][ pc = "start"
           => \/ listening' /\ pc' = "accept" /\ status' = "running"
              \/ ~listening' /\ pc' = "exited" /\ status' = "EXIT_FAILURE" ]_vars
  /\ [](~listening
          => /\ pc \in {"start", "exited"}
             /\ nconn = 0
             /\ backlog = << >>
             /\ open = {}
             /\ client_socket = 0
             /\ phases = << >>
             /\ tx = << >>
             /\ files = EmptyStore
             /\ lastEffect = 0)
  /\ [][ pc = "exited" => pc' = "exited" /\ status' = status ]_vars

\* The start has failed and the process has ended.
C15_Witness ==
  /\ pc = "exited"
  /\ ~listening
  /\ status = "EXIT_FAILURE"

\* ------------------------------------------------------------------------
\* C16

\* The store holds the records of the abstract map and nothing else but the
\* working directory itself.
SameRecords(map) ==
  /\ DOMAIN files \ {Dot} = DOMAIN map
  /\ \A K \in DOMAIN map : files[K] = File(map[K])

\* The reply to `GET K` that the abstract map gives.
AbstractReply(map, K) ==
  IF K \in DOMAIN map THEN Content(map[K]) ELSE NOTFOUND_REPLY

\* C16 (refinement): from the empty store, while every request executed was
\* a SET, GET or DEL of the protocol and no file operation failed, the store
\* is the map those requests leave - a record K exists exactly when the last
\* SET K was not followed by a DEL K, it holds that SET's value, one record
\* per key - and a GET K is answered from that map.  It fails for the SET of
\* more than 1023 bytes that C1 fails for.
C16_RefinesMap ==
  abstract.ok
    => /\ SameRecords(abstract.map)
       /\ (pc = "close" /\ sent.command = GET /\ AbstractRequest(sent))
            => tx = AbstractReply(abstract.map, sent.key)

\* What does hold of C16: the same keys exist in store and map, and every
\* record whose SET fits in the 1023 bytes of one read holds the map's value
\* and is answered with it.
C16_RefinesMapWithinBuffer ==
  abstract.ok
    => /\ DOMAIN files \ {Dot} = DOMAIN abstract.map
       /\ \A K \in DOMAIN abstract.map :
            SetFitsBuffer(K, abstract.map[K]) => files[K] = File(abstract.map[K])
       /\ (pc = "close" /\ sent.command = GET /\ AbstractRequest(sent)
             /\ (sent.key \in DOMAIN abstract.map
                   => SetFitsBuffer(sent.key, abstract.map[sent.key])))
            => tx = AbstractReply(abstract.map, sent.key)

\* ------------------------------------------------------------------------
\* C17

\* The tokens of the request are within the bounds: a command of 1 to 15
\* bytes without white space, a valid key, a valid value.
TokensWithinBounds(r) ==
  /\ StrLen(r.command) \in 1..(MAX_COMMAND_LEN - 1)
  /\ SpanNotIn(r.command, Whitespace \cup {NUL}) = StrLen(r.command)
  /\ ValidKey(r.key)
  /\ ValidValue(r.value)

\* The value handle_client passes to parse_message (line 187).
PassedValue == IF parsed.parsed_args = 3 THEN parsed.value ELSE << >>

\* The client of this connection sent `SET K` for a valid key K: no value.
SentSetNoValue ==
  /\ sent.command = SET
  /\ ValidKey(sent.key)
  /\ sent.value = << >>
  /\ sent.eol = Newline

\* The last command executed on the key of this connection's request was a
\* `SET K` without a value, answered OK.
LastWasSetNoValue ==
  /\ sent.key \in DOMAIN last
  /\ last[sent.key].type = "CMD_SET"
  /\ last[sent.key].key = sent.key
  /\ last[sent.key].value = << >>
  /\ last[sent.key].reply = Str(<< "O", "K", "\n" >>)

\* C17 (parsing): a request whose tokens are within the bounds is dispatched
\* with its first token as the command, its second as the key and what
\* follows the white space after the key, up to the newline, as the value
\* (the empty string when there is none); `SET K` leaves an empty record and
\* the next GET K is answered "OK\n\n".  It fails for the request of more
\* than 1023 bytes that C1 fails for: its value is cut.
C17_Parsing ==
  /\ (pc \in {"dispatch", "malformed", "reply", "close"} /\ TokensWithinBounds(sent))
       => /\ parsed.parsed_args >= 2
          /\ parsed.command = sent.command
          /\ parsed.key = sent.key
          /\ PassedValue = sent.value
  /\ (pc \in {"reply", "close"} /\ SentSetNoValue /\ fault = "none"
        /\ sent.key # Dot)
       => files[sent.key] = File(<< >>)
  /\ (pc = "close" /\ SentGet /\ fault = "none" /\ LastWasSetNoValue)
       => tx = Str(<< "O", "K", "\n", "\n" >>)

\* What does hold of C17: the parsing of every request that fits in the 1023
\* bytes of one read, and the empty record of `SET K`.
C17_ParsingWithinBuffer ==
  /\ (pc \in {"dispatch", "malformed", "reply", "close"} /\ TokensWithinBounds(sent)
        /\ StrLen(Wire(sent)) <= BUFFER_SIZE - 1)
       => /\ parsed.parsed_args >= 2
          /\ parsed.command = sent.command
          /\ parsed.key = sent.key
          /\ PassedValue = sent.value
  /\ (pc \in {"reply", "close"} /\ SentSetNoValue /\ fault = "none"
        /\ sent.key # Dot)
       => files[sent.key] = File(<< >>)
  /\ (pc = "close" /\ SentGet /\ fault = "none" /\ LastWasSetNoValue)
       => tx = Str(<< "O", "K", "\n", "\n" >>)

\* ------------------------------------------------------------------------
\* C18

\* C18: whenever a command is dispatched the command has at most 15 bytes,
\* the key 1 to 255 and the value at most 767; and the fields are the tokens
\* of the request, each cut to its bound, the bytes beyond the bound being
\* dropped (requests that fit in one read, the value not beginning with
\* white space).  It fails: the bytes beyond the bound of the command or
\* the key are taken as the next field.
C18_TruncatedFields ==
  /\ pc = "dispatch"
       => /\ StrLen(parsed.command) <= MAX_COMMAND_LEN - 1
          /\ StrLen(parsed.key) \in 1..(MAX_KEY_LEN - 1)
          /\ StrLen(PassedValue) <= MAX_VALUE_LEN - 1
  /\ (pc \in {"dispatch", "malformed"} /\ StrLen(Wire(sent)) <= BUFFER_SIZE - 1
        /\ SpanIn(sent.value, Whitespace) = 0)
       => /\ parsed.command = Take(sent.command, MAX_COMMAND_LEN - 1)
          /\ parsed.key = Take(sent.key, MAX_KEY_LEN - 1)
          /\ PassedValue = Take(sent.value, MAX_VALUE_LEN - 1)
          /\ pc = "dispatch" <=> sent.key # << >>

\* What does hold of C18: the bounds of the fields dispatched, and the
\* bytes beyond the bound of the value being dropped.
C18_FieldBounds ==
  /\ pc = "dispatch"
       => /\ StrLen(parsed.command) <= MAX_COMMAND_LEN - 1
          /\ StrLen(parsed.key) \in 1..(MAX_KEY_LEN - 1)
          /\ StrLen(PassedValue) <= MAX_VALUE_LEN - 1
  /\ (pc = "dispatch" /\ sent.command = SET /\ sent.key = ShortKey
        /\ sent.value = OverlongValue)
       => /\ parsed.key = ShortKey
          /\ PassedValue = Take(OverlongValue, MAX_VALUE_LEN - 1)

\* ------------------------------------------------------------------------
\* C19

\* The step executes a SET and chooses the reply "ERROR\n".
SetAnsweredError ==
  /\ pc = "dispatch"
  /\ get_command_type(parsed.command) = "CMD_SET"
  /\ out' = ERROR_REPLY

\* Every path other than K is in the store before and after alike.
OthersUnchanged(K) ==
  \A p \in (DOMAIN files \cup DOMAIN files') \ {K} :
    /\ p \in DOMAIN files
    /\ p \in DOMAIN files'
    /\ files'[p] = files[p]

\* The path is a directory of the store.
IsDirectory(K) == K \in DOMAIN files /\ files[K].kind = "dir"

\* C19 as stated: a SET answered "ERROR\n" leaves the store as it was.  It
\* fails: the file is created or emptied by open before the write fails.
C19_FailedSetChangesNothing ==
  [][ SetAnsweredError => files' = files ]_vars

\* C19, amended: a SET K answered "ERROR\n" leaves every record but K as it
\* was; when the file could not be opened or created (K a directory
\* included) the store is as it was; when the write failed, record K exists
\* and is empty, whether or not it existed, and whatever it held, before.
C19_FailedSet ==
  [][ SetAnsweredError
        => /\ OthersUnchanged(parsed.key)
           /\ (fault' # "write" \/ IsDirectory(parsed.key)) => files' = files
           /\ (fault' = "write" /\ ~IsDirectory(parsed.key))
                => /\ parsed.key \in DOMAIN files'
                   /\ files'[parsed.key] = File(<< >>) ]_vars

\* A SET of a record that existed has failed in its write, and another
\* record is in the store.
C19_Witness ==
  /\ pc = "reply"
  /\ get_command_type(parsed.command) = "CMD_SET"
  /\ fault = "write"
  /\ out = ERROR_REPLY
  /\ parsed.key = ShortKey
  /\ last[ShortKey].existed
  /\ files[ShortKey] = File(<< >>)
  /\ LongKey \in DOMAIN files

\* ------------------------------------------------------------------------
\* C20

\* C20 (frame): the execution of a command with key K leaves every path
\* other than K in the store as it was, in existence and in content; a GET,
\* like an unknown command, leaves the whole store as it was, whatever the
\* reply; and the K of a SET, GET or DEL request with a valid key is the key
\* the command is executed with.
C20_Frame ==
  /\ [][ pc = "dispatch"
           => /\ OthersUnchanged(parsed.key)
              /\ get_command_type(parsed.command) \in {"CMD_GET", "CMD_UNKNOWN"}
                   => files' = files ]_vars
  /\ []((pc = "dispatch" /\ sent.command \in {SET, GET, DEL} /\ ValidKey(sent.key))
          => /\ parsed.command = sent.command
             /\ parsed.key = sent.key)

\* A DEL has removed one record while another is in the store.
C20_Witness ==
  /\ pc = "reply"
  /\ get_command_type(parsed.command) = "CMD_DEL"
  /\ parsed.key = ShortKey
  /\ last[ShortKey].removed
  /\ ShortKey \notin DOMAIN files
  /\ LongKey \in DOMAIN files
  /\ files[LongKey].content # << >>

====
